---- MODULE Spec2Model ----
(***************************************************************************)
(* Model of main.py: the commit aggregator (get_commit_email_stats), the   *)
(* repository mirror (clone_or_update_repo), the cached GitHub lookups     *)
(* (lookup_profile_from_commit, lookup_user_details) and the report loop   *)
(* of main().                                                              *)
(*                                                                         *)
(* Python strings are sequences of characters; a character is a            *)
(* one-element TLA+ string, and a fixed literal of the program that is     *)
(* never taken apart (such as the "commit_" prefix of a cache key) is one  *)
(* token.  The empty Python string is the empty sequence.                  *)
(***************************************************************************)
EXTENDS Integers, Sequences, FiniteSets, TLC

VARIABLES
    pc,             \* position of the run inside main() / the aggregator loop
    run,            \* number of the current invocation of the program
    args,           \* argparse namespace: repo_url, limit, min_commits, include_details
    cache_dir_exists, \* the .cache directory exists on disk
    repo_exists,    \* the repository copy <owner>_<repo> exists on disk
    cache_file,     \* profile_cache.json: whether it exists, and its text
    git_cmds,       \* git / filesystem commands this run has executed, in order
    lines,          \* stdout of git log, split in lines
    li,             \* index of the next line of the aggregator loop
    log,            \* the commits git log enumerated (what the lines were printed from)
    email_stats,    \* insertion-ordered dict email -> {commits, sha, name}
    login_to_profile, \* insertion-ordered dict login -> profile url
    profile_cache,  \* insertion-ordered dict cache key -> lookup result
    loaded_cache,   \* profile_cache as load_profile_cache returned it in this run
    persisted,      \* history: what the lookups of the completed runs returned, by cache key
    sorted_emails,  \* the filtered, sorted and truncated list of main()
    ri,             \* index of the next row of the report loop
    stdout,         \* rows written to standard output in this run
    events,         \* cache reads, cache writes, API calls and returns of this run, in order
    effects,        \* side effects performed in this run
    fail            \* the exception that ended the run, "none" when there is none

vars == <<pc, run, args, cache_dir_exists, repo_exists, cache_file, git_cmds,
          lines, li, log, email_stats, login_to_profile, profile_cache,
          loaded_cache, persisted, sorted_emails, ri, stdout, events, effects, fail>>

----------------------------------------------------------------------------
(* Bounds of the model. *)

MaxLog == 3         \* commits in a log of the aggregator specification
MaxMainLog == 3     \* commits in a log of the pipeline specification
MaxRuns == 2        \* invocations of the program in one behaviour
MaxRunLog == 2      \* commits in a log of the repeated-runs specification
MaxLimit == 2       \* largest --limit value
MaxMinCommits == 2  \* largest --min-commits value

----------------------------------------------------------------------------
(* String helpers: str.strip, str.lower, str.count, str.split. *)

EmptyStr == <<>>

IsSpace(c) == c = " "

RECURSIVE LStrip(_)
LStrip(s) == IF s # <<>> /\ IsSpace(Head(s)) THEN LStrip(Tail(s)) ELSE s

RECURSIVE RStrip(_)
RStrip(s) ==
    IF s # <<>> /\ IsSpace(s[Len(s)]) THEN RStrip(SubSeq(s, 1, Len(s) - 1)) ELSE s

Strip(s) == RStrip(LStrip(s))

LowerChar(c) ==
    CASE c = "J" -> "j"
      [] c = "B" -> "b"
      [] c = "C" -> "c"
      [] c = "LinkedIn.com" -> "linkedin.com"
      [] OTHER -> c

Lower(s) == [i \in 1..Len(s) |-> LowerChar(s[i])]

Count(s, c) == Cardinality({i \in 1..Len(s) : s[i] = c})

\* index of the first occurrence of c in s, 0 when there is none
Find(s, c) ==
    IF \E i \in 1..Len(s) : s[i] = c
    THEN CHOOSE i \in 1..Len(s) : s[i] = c /\ \A j \in 1..(i - 1) : s[j] # c
    ELSE 0

\* index of the last occurrence of c in s, 0 when there is none
RFind(s, c) ==
    IF \E i \in 1..Len(s) : s[i] = c
    THEN CHOOSE i \in 1..Len(s) : s[i] = c /\ \A j \in (i + 1)..Len(s) : s[j] # c
    ELSE 0

\* s.split(c)[0]
SplitFirst(s, c) == IF Find(s, c) = 0 THEN s ELSE SubSeq(s, 1, Find(s, c) - 1)

\* s.split(c)[-1]
SplitLast(s, c) == SubSeq(s, RFind(s, c) + 1, Len(s))

\* s.split(c, 2) for a string with at least two occurrences of c
Split2(s, c) ==
    LET i == Find(s, c)
        rest == SubSeq(s, i + 1, Len(s))
        j == Find(rest, c)
    IN  <<SubSeq(s, 1, i - 1), SubSeq(rest, 1, j - 1), SubSeq(rest, j + 1, Len(rest))>>

----------------------------------------------------------------------------
(* Insertion-ordered dicts: a sequence of [k, v] entries with distinct keys. *)

DictKeys(d) == {d[i].k : i \in 1..Len(d)}

DictHas(d, key) == \E i \in 1..Len(d) : d[i].k = key

DictGet(d, key) == d[CHOOSE i \in 1..Len(d) : d[i].k = key].v

DictSet(d, key, val) ==
    IF DictHas(d, key)
    THEN [i \in 1..Len(d) |-> IF d[i].k = key THEN [k |-> key, v |-> val] ELSE d[i]]
    ELSE Append(d, [k |-> key, v |-> val])

----------------------------------------------------------------------------
(* Commit Aggregator: get_commit_email_stats. *)

\* git log --format=%an|%ae|%H prints one line per commit
FormatLine(c) == c.name \o <<"|">> \o c.email \o <<"|">> \o c.sha

NewStats == [commits |-> 0, sha |-> EmptyStr, name |-> EmptyStr]

\* email_stats[email], the defaultdict creating the record when it is missing
StatsOf(stats, email) == IF DictHas(stats, email) THEN DictGet(stats, email) ELSE NewStats

\* body of the loop over the lines, for one line
UpdateStats(stats, rawline) ==
    LET line == Strip(rawline) IN
    IF Count(line, "|") >= 2
    THEN LET parts == Split2(line, "|")
             name == Strip(parts[1])
             email == Strip(parts[2])
             sha == Strip(parts[3])
             old == StatsOf(stats, email)
         IN  DictSet(stats, email,
                     [commits |-> old.commits + 1,
                      sha |-> IF old.sha = EmptyStr THEN sha ELSE old.sha,
                      name |-> IF old.name = EmptyStr THEN name ELSE old.name])
    ELSE stats

RECURSIVE get_commit_email_stats(_)
get_commit_email_stats(ls) ==
    IF ls = <<>> THEN <<>>
    ELSE UpdateStats(get_commit_email_stats(SubSeq(ls, 1, Len(ls) - 1)), ls[Len(ls)])

----------------------------------------------------------------------------
(* parse_github_url.  A URL is a sequence of tokens: the scheme-and-host   *)
(* prefix is one token, ".git" is one token, every other character is a    *)
(* token of its own.                                                       *)

NoMatch == [ok |-> FALSE, owner |-> EmptyStr, repo |-> EmptyStr]

\* https://github\.com/([^/]+)/([^/]+?)(?:\.git)?/?$
HttpsMatch(url) ==
    IF Len(url) < 4 \/ url[1] # "https://github.com/" THEN NoMatch
    ELSE LET body == Tail(url)
             i == Find(body, "/")
             owner == SubSeq(body, 1, i - 1)
             rest == SubSeq(body, i + 1, Len(body))
             noSlash == IF rest # <<>> /\ rest[Len(rest)] = "/"
                        THEN SubSeq(rest, 1, Len(rest) - 1) ELSE rest
             noGit == IF Len(noSlash) > 1 /\ noSlash[Len(noSlash)] = ".git"
                      THEN SubSeq(noSlash, 1, Len(noSlash) - 1) ELSE noSlash
         IN  IF i > 1 /\ noGit # <<>> /\ Count(noGit, "/") = 0
             THEN [ok |-> TRUE, owner |-> owner, repo |-> noGit]
             ELSE NoMatch

\* git@github\.com:([^/]+)/(.+?)(?:\.git)?$
SshMatch(url) ==
    IF Len(url) < 4 \/ url[1] # "git@github.com:" THEN NoMatch
    ELSE LET body == Tail(url)
             i == Find(body, "/")
             owner == SubSeq(body, 1, i - 1)
             rest == SubSeq(body, i + 1, Len(body))
             noGit == IF Len(rest) > 1 /\ rest[Len(rest)] = ".git"
                      THEN SubSeq(rest, 1, Len(rest) - 1) ELSE rest
         IN  IF i > 1 /\ noGit # <<>>
             THEN [ok |-> TRUE, owner |-> owner, repo |-> noGit]
             ELSE NoMatch

\* the parser with a fault: the host is not looked at
parse_github_url_any_host(url) ==
    IF Len(url) >= 4 /\ Find(Tail(url), "/") > 1
    THEN [ok |-> TRUE, owner |-> SubSeq(Tail(url), 1, Find(Tail(url), "/") - 1),
          repo |-> SubSeq(Tail(url), Find(Tail(url), "/") + 1, Len(url) - 1)]
    ELSE NoMatch

\* ok = FALSE stands for raise ValueError("Invalid GitHub URL format")
parse_github_url(url) == IF HttpsMatch(url).ok THEN HttpsMatch(url) ELSE SshMatch(url)

----------------------------------------------------------------------------
(* The persistent cache: load_profile_cache / save_profile_cache.  The     *)
(* JSON text is the sequence of the entries' tokens: the key, then the     *)
(* five fields of the result in the order the result dict was built.       *)

EmptyResult ==
    [profile_url |-> EmptyStr, name |-> EmptyStr, linkedin |-> EmptyStr,
     website |-> EmptyStr, company |-> EmptyStr]

NoFile == [exists |-> FALSE, text |-> <<>>]

RECURSIVE json_dump(_)
json_dump(cache) ==
    IF cache = <<>> THEN <<>>
    ELSE LET e == Head(cache) IN
         <<e.k, e.v.profile_url, e.v.name, e.v.linkedin, e.v.website, e.v.company>>
            \o json_dump(Tail(cache))

RECURSIVE json_load(_)
json_load(text) ==
    IF Len(text) < 6 THEN <<>>
    ELSE LET n == Len(text) - 6
             val == [profile_url |-> text[n + 2], name |-> text[n + 3],
                     linkedin |-> text[n + 4], website |-> text[n + 5],
                     company |-> text[n + 6]]
         IN  DictSet(json_load(SubSeq(text, 1, n)), text[n + 1], val)

load_profile_cache(file) == IF file.exists THEN json_load(file.text) ELSE <<>>

save_profile_cache(cache) == [exists |-> TRUE, text |-> json_dump(cache)]

----------------------------------------------------------------------------
(* The cached lookups.  resp is what the GitHub API answers when it is     *)
(* asked; row is the row of the report loop the lookup is made for.  Each  *)
(* lookup yields the result, the cache afterwards, the events it caused,   *)
(* and failed = TRUE when the API call raised.                             *)

Ev(row, op, key, val) == [row |-> row, op |-> op, key |-> key, val |-> val]

UrlOf(login) == <<"https://github.com", "/">> \o login

OrElse(a, b) == IF a # EmptyStr THEN a ELSE b

commit_key(sha) == <<"commit_">> \o sha

user_key(login) == <<"user_">> \o login

\* the lookup with a fault: a result without an author is not written to the cache
lookup_profile_from_commit_positive_only(sha, cache, resp, row) ==
    LET key == commit_key(sha) IN
    IF DictHas(cache, key)
    THEN [result |-> DictGet(cache, key), cache |-> cache, failed |-> FALSE,
          events |-> <<Ev(row, "check", key, EmptyResult),
                       Ev(row, "return", key, DictGet(cache, key))>>]
    ELSE IF ~resp.ok
    THEN [result |-> EmptyResult, cache |-> cache, failed |-> TRUE,
          events |-> <<Ev(row, "check", key, EmptyResult),
                       Ev(row, "api", key, EmptyResult)>>]
    ELSE IF ~resp.author.present
    THEN [result |-> EmptyResult, cache |-> cache, failed |-> FALSE,
          events |-> <<Ev(row, "check", key, EmptyResult),
                       Ev(row, "api", key, EmptyResult),
                       Ev(row, "return", key, EmptyResult)>>]
    ELSE LET result == [EmptyResult EXCEPT
                          !.profile_url = UrlOf(resp.author.login),
                          !.name = OrElse(resp.author.name, resp.author.login)]
         IN  [result |-> result, cache |-> DictSet(cache, key, result), failed |-> FALSE,
              events |-> <<Ev(row, "check", key, EmptyResult),
                           Ev(row, "api", key, EmptyResult),
                           Ev(row, "write", key, result),
                           Ev(row, "return", key, result)>>]

lookup_profile_from_commit(sha, cache, resp, row) ==
    LET key == commit_key(sha) IN
    IF DictHas(cache, key)
    THEN [result |-> DictGet(cache, key), cache |-> cache, failed |-> FALSE,
          events |-> <<Ev(row, "check", key, EmptyResult),
                       Ev(row, "return", key, DictGet(cache, key))>>]
    ELSE IF ~resp.ok
    THEN [result |-> EmptyResult, cache |-> cache, failed |-> TRUE,
          events |-> <<Ev(row, "check", key, EmptyResult),
                       Ev(row, "api", key, EmptyResult)>>]
    ELSE LET result ==
                 IF resp.author.present
                 THEN [EmptyResult EXCEPT
                          !.profile_url = UrlOf(resp.author.login),
                          !.name = OrElse(resp.author.name, resp.author.login)]
                 ELSE EmptyResult
         IN  [result |-> result, cache |-> DictSet(cache, key, result), failed |-> FALSE,
              events |-> <<Ev(row, "check", key, EmptyResult),
                           Ev(row, "api", key, EmptyResult),
                           Ev(row, "write", key, result),
                           Ev(row, "return", key, result)>>]

Contains(s, tok) == \E i \in 1..Len(s) : s[i] = tok

\* yields <<linkedin, website>>
parse_blog_url(blog_url) ==
    IF blog_url = EmptyStr THEN <<EmptyStr, EmptyStr>>
    ELSE IF Contains(Lower(Strip(blog_url)), "linkedin.com")
    THEN <<Strip(blog_url), EmptyStr>>
    ELSE <<EmptyStr, Strip(blog_url)>>

lookup_user_details(login, cache, resp, row) ==
    LET key == user_key(login) IN
    IF DictHas(cache, key)
    THEN [result |-> DictGet(cache, key), cache |-> cache, failed |-> FALSE,
          events |-> <<Ev(row, "check", key, EmptyResult),
                       Ev(row, "return", key, DictGet(cache, key))>>]
    ELSE IF ~resp.ok
    THEN [result |-> EmptyResult, cache |-> cache, failed |-> TRUE,
          events |-> <<Ev(row, "check", key, EmptyResult),
                       Ev(row, "api", key, EmptyResult)>>]
    ELSE LET blog == parse_blog_url(resp.blog)
             result == [profile_url |-> UrlOf(login),
                        name |-> OrElse(resp.name, login),
                        linkedin |-> blog[1],
                        website |-> blog[2],
                        company |-> resp.company]
         IN  [result |-> result, cache |-> DictSet(cache, key, result), failed |-> FALSE,
              events |-> <<Ev(row, "check", key, EmptyResult),
                           Ev(row, "api", key, EmptyResult),
                           Ev(row, "write", key, result),
                           Ev(row, "return", key, result)>>]

----------------------------------------------------------------------------
(* The inputs of a run: command lines, commit logs, API answers. *)

HttpsUrl == <<"https://github.com/", "o", "/", "r", ".git">>
SshUrl == <<"git@github.com:", "o", "/", "r">>

NoLimit == [given |-> FALSE, n |-> 0]

Limits == {NoLimit} \cup {[given |-> TRUE, n |-> n] : n \in 0..MaxLimit}

BadUrls ==
    {<<"http://example.com/", "o", "/", "r">>,
     <<"https://github.com/", "o">>,
     <<"https://github.com/", "o", "/", "r", "/", "x">>,
     <<"git@github.com:", "/", "r">>}

\* every option combination on the HTTPS form, the defaults on the other forms
AllArgs ==
    [repo_url : {HttpsUrl}, limit : Limits,
     min_commits : 1..MaxMinCommits, include_details : BOOLEAN]
    \cup
    [repo_url : {SshUrl} \cup BadUrls, limit : {NoLimit},
     min_commits : {1}, include_details : {FALSE}]

\* the command lines of the repeated runs
RunArgs ==
    [repo_url : {HttpsUrl}, limit : {NoLimit},
     min_commits : {1}, include_details : BOOLEAN]

NoArgs ==
    [repo_url |-> <<>>, limit |-> NoLimit, min_commits |-> 1, include_details |-> FALSE]

ShaChars == <<"1", "2", "3", "4", "5", "6">>

\* the commit hash of the i-th commit of a log
ShaOf(i) == <<ShaChars[i]>>

\* the logs of at most n commits whose authors are drawn from names and emails
LogsOver(names, emails, n) ==
    UNION {{[i \in 1..m |-> [name |-> f[i].name, email |-> f[i].email, sha |-> ShaOf(i)]]
              : f \in [1..m -> [name : names, email : emails]]} : m \in 0..n}

\* result.stdout.strip().split('\n')
LogLines(lg) == IF lg = <<>> THEN <<EmptyStr>> ELSE [i \in 1..Len(lg) |-> FormatLine(lg[i])]

StatsNames == {<<"A">>, <<>>, <<"A", "|", "B">>}
StatsEmails == {<<"e">>, <<"f">>}
StatsLogs == LogsOver(StatsNames, StatsEmails, MaxLog)

MainEmails == {<<"J", "@", "x">>, <<"b", "@", "x">>, <<"c", "@", "y">>}
MainLogs == LogsOver({<<"A">>}, MainEmails, MaxMainLog)
RunLogs == LogsOver({<<"A">>}, {<<"J", "@", "x">>, <<"c", "@", "y">>}, MaxRunLog)

Contributor(login) == [k |-> login, v |-> UrlOf(login)]

ContributorLists ==
    {<<>>,
     <<Contributor(<<"j", "n">>), Contributor(<<"B">>)>>,
     <<Contributor(<<"j", "n">>), Contributor(<<"j">>), Contributor(<<"B">>)>>}

NoAuthor == [present |-> FALSE, login |-> EmptyStr, name |-> EmptyStr]

ApiError == [ok |-> FALSE, author |-> NoAuthor, name |-> EmptyStr,
             blog |-> EmptyStr, company |-> EmptyStr]

\* answers of repository.get_commit(sha): an error, or a commit and its author
CommitResponses ==
    {ApiError} \cup
    {[ApiError EXCEPT !.ok = TRUE, !.author = a] :
        a \in {NoAuthor,
               [present |-> TRUE, login |-> <<"z">>, name |-> EmptyStr],
               [present |-> TRUE, login |-> <<"B">>, name |-> <<"N">>]}}

\* answers of github_client.get_user(login): an error, or the user's profile
UserResponses ==
    {ApiError,
     [ApiError EXCEPT !.ok = TRUE],
     [ApiError EXCEPT !.ok = TRUE, !.name = <<"N">>,
                      !.blog = <<" ", "LinkedIn.com", "/", "u">>, !.company = <<"C", "o">>],
     [ApiError EXCEPT !.ok = TRUE, !.name = <<"N">>, !.blog = <<"x">>]}

\* the answers of the API in the repeated runs: an error, or one of two versions
RunContributorLists ==
    {<<>>, <<Contributor(<<"j", "n">>), Contributor(<<"j">>), Contributor(<<"B">>)>>}

RunCommitResponses ==
    {r \in CommitResponses : r.author.login # <<"z">>}

RunUserResponses ==
    {r \in UserResponses : r.blog # <<"x">>}

----------------------------------------------------------------------------
(* main(): selection of the rows (lines 196-199) and the loop body (207-240). *)

\* the filter with a fault: a record with exactly min_commits commits is dropped
Filter_strict(stats, min_commits) == SelectSeq(stats, LAMBDA e : e.v.commits > min_commits)

Filter(stats, min_commits) == SelectSeq(stats, LAMBDA e : e.v.commits >= min_commits)

RemoveAt(s, i) == SubSeq(s, 1, i - 1) \o SubSeq(s, i + 1, Len(s))

\* sorted(..., key=commits, reverse=True): stable, equal counts keep their order
RECURSIVE SortDesc(_)
SortDesc(s) ==
    IF s = <<>> THEN <<>>
    ELSE LET i == CHOOSE i \in 1..Len(s) :
                    /\ \A j \in 1..Len(s) : s[j].v.commits <= s[i].v.commits
                    /\ \A j \in 1..(i - 1) : s[j].v.commits < s[i].v.commits
         IN  <<s[i]>> \o SortDesc(RemoveAt(s, i))

\* s[:n]
SlicePrefix(s, n) ==
    IF n >= 0
    THEN SubSeq(s, 1, IF n < Len(s) THEN n ELSE Len(s))
    ELSE SubSeq(s, 1, IF Len(s) + n > 0 THEN Len(s) + n ELSE 0)

\* if args.limit: sorted_emails = sorted_emails[:args.limit]
ApplyLimit(s, limit) == IF limit.given /\ limit.n # 0 THEN SlicePrefix(s, limit.n) ELSE s

SelectRows(stats, a) == ApplyLimit(SortDesc(Filter(stats, a.min_commits)), a.limit)

BasicHeader == <<"email", "commits", "sample_sha", "github_profile">>

DetailHeader ==
    <<"name", "email", "commits", "sample_sha", "github_profile",
      "linkedin", "website", "company">>

Header(details) ==
    [kind |-> "header", cols |-> IF details THEN DetailHeader ELSE BasicHeader]

\* the match with a fault: the local part of the email is not lower-cased
MatchIndex_case_sensitive(email, l2p) ==
    LET email_user == SplitFirst(email, "@") IN
    IF \E i \in 1..Len(l2p) : Lower(l2p[i].k) = email_user
    THEN CHOOSE i \in 1..Len(l2p) :
            /\ Lower(l2p[i].k) = email_user
            /\ \A j \in 1..(i - 1) : Lower(l2p[j].k) # email_user
    ELSE 0

\* index of the first login of the contributor dict the email matches, 0 when none does
MatchIndex(email, l2p) ==
    LET email_user == Lower(SplitFirst(email, "@")) IN
    IF \E i \in 1..Len(l2p) : Lower(l2p[i].k) = email_user
    THEN CHOOSE i \in 1..Len(l2p) :
            /\ Lower(l2p[i].k) = email_user
            /\ \A j \in 1..(i - 1) : Lower(l2p[j].k) # email_user
    ELSE 0

\* the loop body with a fault: the commit author is looked up in full in basic mode too
Resolve_always_escalate(rec, row, l2p, cache, details, cresp, uresp) ==
    LET m == MatchIndex(rec.k, l2p) IN
    IF m > 0
    THEN IF details
         THEN lookup_user_details(l2p[m].k, cache, uresp, row)
         ELSE [result |-> [EmptyResult EXCEPT !.profile_url = l2p[m].v],
               cache |-> cache, failed |-> FALSE, events |-> <<>>]
    ELSE LET c == lookup_profile_from_commit(rec.v.sha, cache, cresp, row) IN
         IF ~c.failed /\ c.result.profile_url # EmptyStr
         THEN LET u == lookup_user_details(SplitLast(c.result.profile_url, "/"),
                                           c.cache, uresp, row)
              IN  [u EXCEPT !.events = c.events \o u.events]
         ELSE c

\* lines 209-226: user_details of one row
Resolve(rec, row, l2p, cache, details, cresp, uresp) ==
    LET m == MatchIndex(rec.k, l2p) IN
    IF m > 0
    THEN IF details
         THEN lookup_user_details(l2p[m].k, cache, uresp, row)
         ELSE [result |-> [EmptyResult EXCEPT !.profile_url = l2p[m].v],
               cache |-> cache, failed |-> FALSE, events |-> <<>>]
    ELSE LET c == lookup_profile_from_commit(rec.v.sha, cache, cresp, row) IN
         IF ~c.failed /\ details /\ c.result.profile_url # EmptyStr
         THEN LET u == lookup_user_details(SplitLast(c.result.profile_url, "/"),
                                           c.cache, uresp, row)
              IN  [u EXCEPT !.events = c.events \o u.events]
         ELSE c

\* lines 228-240: the row written for a record
OutRow(rec, d, details) ==
    IF details
    THEN [kind |-> "row", name |-> rec.v.name, email |-> Strip(rec.k),
          commits |-> rec.v.commits, sha |-> Strip(rec.v.sha),
          profile_url |-> d.profile_url, linkedin |-> d.linkedin,
          website |-> d.website, company |-> d.company]
    ELSE [kind |-> "row", email |-> Strip(rec.k), commits |-> rec.v.commits,
          sha |-> Strip(rec.v.sha), profile_url |-> d.profile_url]

----------------------------------------------------------------------------
(* The run of main(), one action per step. *)

Cmd(c, ok) == [cmd |-> c, ok |-> ok]

disk == <<cache_dir_exists, repo_exists, cache_file>>
aggregator == <<lines, li, log, email_stats>>
report == <<login_to_profile, profile_cache, loaded_cache, sorted_emails, ri, stdout, events>>

Abort(kind) == pc' = "failed" /\ fail' = kind

\* line 176: parser.parse_args()
ParseArgs(argset) ==
    /\ pc = "start"
    /\ args' \in argset
    /\ pc' = "makedirs"
    /\ UNCHANGED <<run, disk, git_cmds, aggregator, report, persisted, effects, fail>>

\* line 180: os.makedirs(cache_dir, exist_ok=True)
MakeDirs ==
    /\ pc = "makedirs"
    /\ cache_dir_exists' = TRUE
    /\ effects' = effects \cup (IF cache_dir_exists THEN {} ELSE {"dir_created"})
    /\ pc' = "clone"
    /\ UNCHANGED <<run, args, repo_exists, cache_file, git_cmds, aggregator, report,
                   persisted, fail>>

\* the mirror with a fault: the return code of the clone after a failed fetch is ignored
CloneOrUpdate_unchecked_reclone ==
    /\ pc = "clone"
    /\ \E fetch_ok \in BOOLEAN, clone_ok \in BOOLEAN :
         IF ~parse_github_url(args.repo_url).ok
         THEN /\ Abort("format")
              /\ UNCHANGED <<repo_exists, git_cmds>>
         ELSE IF repo_exists
         THEN IF fetch_ok
              THEN /\ git_cmds' = git_cmds \o <<Cmd("fetch", TRUE)>>
                   /\ pc' = "log"
                   /\ UNCHANGED <<repo_exists, fail>>
              ELSE /\ git_cmds' = git_cmds \o
                          <<Cmd("fetch", FALSE), Cmd("rmtree", TRUE), Cmd("clone", clone_ok)>>
                   /\ repo_exists' = clone_ok
                   /\ pc' = "log" /\ UNCHANGED fail
         ELSE /\ git_cmds' = git_cmds \o <<Cmd("clone", clone_ok)>>
              /\ repo_exists' = clone_ok
              /\ IF clone_ok THEN pc' = "log" /\ UNCHANGED fail ELSE Abort("mirror")
    /\ UNCHANGED <<run, args, cache_dir_exists, cache_file, aggregator, report,
                   persisted, effects>>

\* line 183, clone_or_update_repo: the outcome of a git command is the environment's
CloneOrUpdate ==
    /\ pc = "clone"
    /\ \E fetch_ok \in BOOLEAN, clone_ok \in BOOLEAN :
         IF ~parse_github_url(args.repo_url).ok
         THEN /\ Abort("format")
              /\ UNCHANGED <<repo_exists, git_cmds>>
         ELSE IF repo_exists
         THEN IF fetch_ok
              THEN /\ git_cmds' = git_cmds \o <<Cmd("fetch", TRUE)>>
                   /\ pc' = "log"
                   /\ UNCHANGED <<repo_exists, fail>>
              ELSE /\ git_cmds' = git_cmds \o
                          <<Cmd("fetch", FALSE), Cmd("rmtree", TRUE), Cmd("clone", clone_ok)>>
                   /\ repo_exists' = clone_ok
                   /\ IF clone_ok THEN pc' = "log" /\ UNCHANGED fail ELSE Abort("mirror")
         ELSE /\ git_cmds' = git_cmds \o <<Cmd("clone", clone_ok)>>
              /\ repo_exists' = clone_ok
              /\ IF clone_ok THEN pc' = "log" /\ UNCHANGED fail ELSE Abort("mirror")
    /\ UNCHANGED <<run, args, cache_dir_exists, cache_file, aggregator, report,
                   persisted, effects>>

\* line 186, get_commit_email_stats: git log, then the loop over its lines
GetStats(logs) ==
    /\ pc = "log"
    /\ \E ok \in BOOLEAN :
         IF ok
         THEN /\ git_cmds' = git_cmds \o <<Cmd("log", TRUE)>>
              /\ log' \in logs
              /\ lines' = LogLines(log')
              /\ li' = Len(lines') + 1
              /\ email_stats' = get_commit_email_stats(lines')
              /\ pc' = "contributors"
              /\ UNCHANGED fail
         ELSE /\ git_cmds' = git_cmds \o <<Cmd("log", FALSE)>>
              /\ Abort("log")
              /\ UNCHANGED aggregator
    /\ UNCHANGED <<run, args, disk, report, persisted, effects>>

\* line 190, get_github_contributors: one API fetch of the contributor list
GetContributors(lists) ==
    /\ pc = "contributors"
    /\ effects' = effects \cup {"api"}
    /\ \/ /\ login_to_profile' \in lists
          /\ pc' = "load"
          /\ UNCHANGED fail
       \/ /\ Abort("api_contributors")
          /\ UNCHANGED login_to_profile
    /\ UNCHANGED <<run, args, disk, git_cmds, aggregator, profile_cache, loaded_cache,
                   sorted_emails, ri, stdout, events, persisted>>

\* line 193, load_profile_cache
LoadCache ==
    /\ pc = "load"
    /\ profile_cache' = load_profile_cache(cache_file)
    /\ loaded_cache' = profile_cache'
    /\ effects' = effects \cup (IF cache_file.exists THEN {"cache_read"} ELSE {})
    /\ pc' = "select"
    /\ UNCHANGED <<run, args, disk, git_cmds, aggregator, login_to_profile, sorted_emails,
                   ri, stdout, events, persisted, fail>>

\* lines 196-205: filter, sort, limit, then the header row
Select ==
    /\ pc = "select"
    /\ sorted_emails' = SelectRows(email_stats, args)
    /\ stdout' = Append(stdout, Header(args.include_details))
    /\ ri' = 1
    /\ pc' = "rows"
    /\ UNCHANGED <<run, args, disk, git_cmds, aggregator, login_to_profile, profile_cache,
                   loaded_cache, events, persisted, effects, fail>>

\* the loop with a fault: the cache is saved when a lookup raises
ResolveRow_save_on_error(cresps, uresps) ==
    /\ pc = "rows"
    /\ ri <= Len(sorted_emails)
    /\ \E cresp \in cresps, uresp \in uresps :
         LET r == Resolve(sorted_emails[ri], ri, login_to_profile, profile_cache,
                          args.include_details, cresp, uresp)
         IN  /\ profile_cache' = r.cache
             /\ events' = events \o r.events
             /\ IF r.failed
                THEN /\ Abort("api_row")
                     /\ cache_file' = save_profile_cache(r.cache)
                     /\ effects' = effects \cup {"api", "cache_write"}
                     /\ UNCHANGED <<stdout, ri>>
                ELSE /\ stdout' = Append(stdout,
                            OutRow(sorted_emails[ri], r.result, args.include_details))
                     /\ ri' = ri + 1
                     /\ effects' = effects \cup
                            (IF \E i \in 1..Len(r.events) : r.events[i].op = "api"
                             THEN {"api"} ELSE {})
                     /\ UNCHANGED <<pc, fail, cache_file>>
    /\ UNCHANGED <<run, args, cache_dir_exists, repo_exists, git_cmds, aggregator,
                   login_to_profile, loaded_cache, sorted_emails, persisted>>

\* lines 207-240: one iteration of the report loop
ResolveRow(cresps, uresps) ==
    /\ pc = "rows"
    /\ ri <= Len(sorted_emails)
    /\ \E cresp \in cresps, uresp \in uresps :
         LET r == Resolve(sorted_emails[ri], ri, login_to_profile, profile_cache,
                          args.include_details, cresp, uresp)
         IN  /\ profile_cache' = r.cache
             /\ events' = events \o r.events
             /\ effects' = effects \cup
                    (IF \E i \in 1..Len(r.events) : r.events[i].op = "api"
                     THEN {"api"} ELSE {})
             /\ IF r.failed
                THEN /\ Abort("api_row")
                     /\ UNCHANGED <<stdout, ri>>
                ELSE /\ stdout' = Append(stdout,
                            OutRow(sorted_emails[ri], r.result, args.include_details))
                     /\ ri' = ri + 1
                     /\ UNCHANGED <<pc, fail>>
    /\ UNCHANGED <<run, args, disk, git_cmds, aggregator, login_to_profile, loaded_cache,
                   sorted_emails, persisted>>

\* line 243, save_profile_cache
SaveCache ==
    /\ pc = "rows"
    /\ ri > Len(sorted_emails)
    /\ cache_file' = save_profile_cache(profile_cache)
    /\ effects' = effects \cup {"cache_write"}
    /\ pc' = "done"
    /\ UNCHANGED <<run, args, cache_dir_exists, repo_exists, git_cmds, aggregator, report,
                   persisted, fail>>

\* the lookups answered so far by runs that completed: key -> the first value returned
RECURSIVE Remember(_, _)
Remember(known, evs) ==
    IF evs = <<>> THEN known
    ELSE LET e == Head(evs) IN
         Remember(IF e.op = "return" /\ ~DictHas(known, e.key)
                  THEN DictSet(known, e.key, e.val) ELSE known,
                  Tail(evs))

\* the program is invoked again: the disk is what the previous run left
NextRun ==
    /\ pc \in {"done", "failed"}
    /\ run < MaxRuns
    /\ run' = run + 1
    /\ pc' = "start"
    /\ args' = NoArgs
    /\ git_cmds' = <<>>
    /\ lines' = <<>> /\ li' = 1 /\ log' = <<>> /\ email_stats' = <<>>
    /\ login_to_profile' = <<>> /\ profile_cache' = <<>> /\ loaded_cache' = <<>>
    /\ sorted_emails' = <<>> /\ ri' = 1 /\ stdout' = <<>> /\ events' = <<>>
    /\ effects' = {} /\ fail' = "none"
    /\ persisted' = IF pc = "done" THEN Remember(persisted, events) ELSE persisted
    /\ UNCHANGED disk

Fresh ==
    /\ run = 1
    /\ args = NoArgs
    /\ git_cmds = <<>>
    /\ li = 1 /\ email_stats = <<>>
    /\ login_to_profile = <<>> /\ profile_cache = <<>> /\ loaded_cache = <<>>
    /\ sorted_emails = <<>> /\ ri = 1 /\ stdout = <<>> /\ events = <<>>
    /\ effects = {} /\ fail = "none"
    /\ persisted = <<>>

\* a first invocation: the cache directory and the repository copy may be there already
Init ==
    /\ Fresh
    /\ pc = "start"
    /\ lines = <<>> /\ log = <<>>
    /\ cache_dir_exists \in BOOLEAN
    /\ repo_exists \in {FALSE, cache_dir_exists}
    /\ cache_file = NoFile

Next ==
    \/ ParseArgs(AllArgs)
    \/ MakeDirs
    \/ CloneOrUpdate
    \/ GetStats(MainLogs)
    \/ GetContributors(ContributorLists)
    \/ LoadCache
    \/ Select
    \/ ResolveRow(CommitResponses, UserResponses)
    \/ SaveCache

Spec == Init /\ [][Next]_vars

----------------------------------------------------------------------------
(* The aggregator on its own, one line of the log per step. *)

ParseLine ==
    /\ pc = "stats_loop"
    /\ li <= Len(lines)
    /\ email_stats' = UpdateStats(email_stats, lines[li])
    /\ li' = li + 1
    /\ UNCHANGED <<pc, run, args, disk, git_cmds, lines, log, report, persisted, effects, fail>>

StatsReturn ==
    /\ pc = "stats_loop"
    /\ li > Len(lines)
    /\ pc' = "stats_done"
    /\ UNCHANGED <<run, args, disk, git_cmds, aggregator, report, persisted, effects, fail>>

InitStats ==
    /\ Fresh
    /\ pc = "stats_loop"
    /\ cache_dir_exists = TRUE /\ repo_exists = TRUE /\ cache_file = NoFile
    /\ log \in StatsLogs
    /\ lines = LogLines(log)

NextStats == ParseLine \/ StatsReturn

SpecStats == InitStats /\ [][NextStats]_vars

\* the same loop on logs whose author names have no separator character in them
PlainNames == {<<"A">>, <<"B">>, <<>>}

InitPlain ==
    /\ Fresh
    /\ pc = "stats_loop"
    /\ cache_dir_exists = TRUE /\ repo_exists = TRUE /\ cache_file = NoFile
    /\ log \in LogsOver(PlainNames, StatsEmails, MaxLog)
    /\ lines = LogLines(log)

SpecPlain == InitPlain /\ [][NextStats]_vars

----------------------------------------------------------------------------
(* Properties of the aggregator. *)

LogEmails == {log[i].email : i \in 1..Len(log)}

CommitsOf(e) == {i \in 1..Len(log) : log[i].email = e}

\* the first commit of the log, in traversal order, whose author email is e
FirstOf(e) == CHOOSE i \in CommitsOf(e) : \A j \in CommitsOf(e) : i <= j

\* C3: when the aggregator returns, the count recorded for every email is the
\* number of commits of the log whose author email is that email, and there is
\* no record for an email no commit carries.
C3_ExactCounts ==
    pc = "stats_done" =>
        \A e \in LogEmails \cup DictKeys(email_stats) :
            StatsOf(email_stats, e).commits = Cardinality(CommitsOf(e))

\* C4: at every point of the loop, every email among the commits read so far
\* has a record whose sha and name are those of the first commit carrying it.
C4_FirstSeen ==
    pc \in {"stats_loop", "stats_done"} =>
        \A i \in 1..Len(log) :
            i < li =>
                LET e == log[i].email IN
                /\ DictHas(email_stats, e)
                /\ DictGet(email_stats, e).sha = log[FirstOf(e)].sha
                /\ DictGet(email_stats, e).name = log[FirstOf(e)].name

----------------------------------------------------------------------------
(* Repeated runs over the same cache directory. *)

\* the first invocation on a machine: no cache directory yet
InitRuns == Init /\ ~cache_dir_exists

NextRuns ==
    \/ ParseArgs(RunArgs)
    \/ MakeDirs
    \/ CloneOrUpdate
    \/ GetStats(RunLogs)
    \/ GetContributors(RunContributorLists)
    \/ LoadCache
    \/ Select
    \/ ResolveRow(RunCommitResponses, RunUserResponses)
    \/ SaveCache
    \/ NextRun

SpecRuns == InitRuns /\ [][NextRuns]_vars


----------------------------------------------------------------------------
(* Properties of the repository mirror and of the failure paths. *)

Ran(c) == \E i \in 1..Len(git_cmds) : git_cmds[i].cmd = c

Succeeded(c) == \E i \in 1..Len(git_cmds) : git_cmds[i] = Cmd(c, TRUE)

BeforeMirror == pc \in {"start", "makedirs", "clone"}

\* what one call of clone_or_update_repo may do, given whether a copy is there
MirrorStep ==
    (pc = "clone" /\ pc' # "clone" /\ args.repo_url \notin BadUrls) =>
        LET new == git_cmds' IN
        /\ ~repo_exists =>
              /\ Len(new) = 1 /\ new[1].cmd = "clone"
              /\ (new[1].ok => pc' = "log")
              /\ (~new[1].ok => pc' = "failed" /\ fail' = "mirror")
        /\ repo_exists =>
              /\ Len(new) \in {1, 3} /\ new[1].cmd = "fetch"
              /\ (new[1].ok => Len(new) = 1 /\ pc' = "log")
              /\ (~new[1].ok =>
                    /\ Len(new) = 3 /\ new[2].cmd = "rmtree" /\ new[3].cmd = "clone"
                    /\ (new[3].ok => pc' = "log")
                    /\ (~new[3].ok => pc' = "failed" /\ fail' = "mirror"))

\* C9: with no local copy one clone is attempted; with a local copy a fetch is
\* attempted first and only its failure leads to discarding the copy and to
\* one clone; a failed clone is fatal; after a mirror failure the log is never
\* read, and the run goes past the mirror only after a successful fetch or clone.
C9_MirrorProtocol ==
    /\ [][MirrorStep]_vars
    /\ [](fail = "mirror" => pc = "failed" /\ ~Ran("log") /\ lines = <<>> /\ email_stats = <<>>)
    /\ []((~BeforeMirror /\ fail \notin {"format", "mirror"}) =>
              Succeeded("fetch") \/ Succeeded("clone"))
    /\ [](Ran("log") => Succeeded("fetch") \/ Succeeded("clone"))

C9_Witness ==
    /\ fail = "mirror"
    /\ git_cmds = <<Cmd("fetch", FALSE), Cmd("rmtree", TRUE), Cmd("clone", FALSE)>>

\* C6 as stated: a format error happens before any side effect at all.
C6_NoSideEffect ==
    fail = "format" => effects = {} /\ git_cmds = <<>>

\* C6, amended: a URL of neither form ends the run with a format error before
\* any git command, API call, cache file access or output; the one side effect
\* is the creation of the cache directory when it was missing.
C6_FormatErrorFirst ==
    /\ (args.repo_url \in BadUrls /\ ~BeforeMirror) =>
          /\ pc = "failed" /\ fail = "format"
          /\ git_cmds = <<>>
          /\ effects \subseteq {"dir_created"}
          /\ cache_dir_exists
          /\ stdout = <<>> /\ events = <<>>
    /\ fail = "format" => args.repo_url \in BadUrls

C6_Witness == fail = "format" /\ effects = {"dir_created"}

\* C5 as stated: a run that ends in a failure has written nothing to standard
\* output and has not rewritten the cache file.
C5_NoPartialOutput ==
    pc = "failed" => stdout = <<>> /\ "cache_write" \notin effects

\* C5, amended: a run that ends in a failure has not rewritten the cache file;
\* a failure before the report loop leaves standard output empty, an API
\* failure while resolving row k leaves the header and the k-1 rows resolved
\* before it on standard output.
C5_AbortOutput ==
    pc = "failed" =>
        /\ "cache_write" \notin effects
        /\ cache_file = NoFile
        /\ fail \in {"format", "mirror", "log", "api_contributors", "api_row"}
        /\ fail # "api_row" => stdout = <<>>
        /\ fail = "api_row" =>
              /\ Len(stdout) = ri
              /\ stdout[1] = Header(args.include_details)
              /\ \A i \in 2..Len(stdout) :
                    stdout[i].kind = "row" /\ stdout[i].email = sorted_emails[i - 1].k

C5_Witness == pc = "failed" /\ fail = "api_row" /\ Len(stdout) >= 2


----------------------------------------------------------------------------
(* Properties of the report: selection, order, login match, lookups. *)

DataRows == SubSeq(stdout, 2, Len(stdout))

Eligible == {i \in 1..Len(email_stats) : email_stats[i].v.commits >= args.min_commits}

\* record i comes before record j in the report: more commits, or as many and seen earlier
Before(i, j) ==
    \/ email_stats[i].v.commits > email_stats[j].v.commits
    \/ email_stats[i].v.commits = email_stats[j].v.commits /\ i < j

\* index in email_stats of the record of an email
RecordOf(email) == CHOOSE i \in 1..Len(email_stats) : email_stats[i].k = email

\* the data rows are, in report order, n of the eligible records and no later
\* eligible record is ahead of one of them
IsTopOfReport(rows, n) ==
    /\ Len(rows) = n
    /\ \A r \in 1..Len(rows) :
          /\ rows[r].kind = "row"
          /\ \E i \in Eligible : email_stats[i].k = rows[r].email
          /\ rows[r].commits = email_stats[RecordOf(rows[r].email)].v.commits
          /\ rows[r].sha = email_stats[RecordOf(rows[r].email)].v.sha
    /\ \A r, q \in 1..Len(rows) :
          r < q => Before(RecordOf(rows[r].email), RecordOf(rows[q].email))
    /\ \A i \in Eligible :
          (\A r \in 1..Len(rows) : rows[r].email # email_stats[i].k) =>
              \A r \in 1..Len(rows) : Before(RecordOf(rows[r].email), i)

Min(a, b) == IF a < b THEN a ELSE b

\* C7: with --limit N the data rows of a completed run are the first N records
\* of the filtered, sorted list, all of them when there are fewer than N (none
\* for an N below 1).
C7_LimitCaps ==
    (pc = "done" /\ args.limit.given) =>
        IsTopOfReport(DataRows,
                      Min(IF args.limit.n > 0 THEN args.limit.n ELSE 0,
                          Cardinality(Eligible)))

\* C8: with no limit the data rows of a completed run are the records with at
\* least --min-commits commits, each once, by commit count descending, records
\* of equal count in the order the aggregation first saw them.
C8_FilterAndOrder ==
    (pc = "done" /\ ~args.limit.given) =>
        IsTopOfReport(DataRows, Cardinality(Eligible))

\* two records, the second with more commits than the first, reported in count order
C8_Witness ==
    /\ pc = "done" /\ ~args.limit.given
    /\ Len(email_stats) = 2 /\ Len(DataRows) = 2
    /\ DataRows[1].email = email_stats[2].k

CasePairs == {<<"J", "j">>, <<"B", "b">>, <<"C", "c">>}

EqualIgnoringCase(a, b) ==
    /\ Len(a) = Len(b)
    /\ \A i \in 1..Len(a) :
          a[i] = b[i] \/ <<a[i], b[i]>> \in CasePairs \/ <<b[i], a[i]>> \in CasePairs

\* the part of an email before its first '@'
LocalPart(email) ==
    CHOOSE p \in {SubSeq(email, 1, n) : n \in 0..Len(email)} :
        /\ \A i \in 1..Len(p) : p[i] # "@"
        /\ Len(p) = Len(email) \/ email[Len(p) + 1] = "@"

Matches(email, login) == EqualIgnoringCase(LocalPart(email), login)

EventsOfRow(r) == {i \in 1..Len(events) : events[i].row = r}

\* C2: in basic mode the row of an email whose local part equals a contributor
\* login up to case carries that contributor's profile URL and was resolved
\* without an API call, a cache read or a cache write; the row of an email
\* that matches no login was resolved through the commit lookup.
C2_LoginGuess ==
    ~args.include_details =>
        \A r \in 1..Len(DataRows) :
            LET email == sorted_emails[r].k
                hits == {j \in 1..Len(login_to_profile) :
                            Matches(email, login_to_profile[j].k)}
            IN  /\ DataRows[r].kind = "row" /\ DataRows[r].email = email
                /\ DOMAIN DataRows[r] = {"kind", "email", "commits", "sha", "profile_url"}
                /\ \A j \in hits :
                      /\ DataRows[r].profile_url = login_to_profile[j].v
                      /\ EventsOfRow(r) = {}
                /\ hits = {} =>
                      \E i \in EventsOfRow(r) :
                          events[i].op = "check" /\ events[i].key = commit_key(sorted_emails[r].v.sha)

\* John@x.com is matched to john although johnny is listed before it
C2_Witness ==
    /\ ~args.include_details
    /\ Len(login_to_profile) = 3
    /\ \E r \in 1..Len(DataRows) :
          /\ DataRows[r].email = <<"J", "@", "x">>
          /\ DataRows[r].profile_url = UrlOf(<<"j">>)
          /\ EventsOfRow(r) = {}

ApiCallsOfRow(r) == {i \in EventsOfRow(r) : events[i].op = "api"}

WritesOfRow(r) == {i \in EventsOfRow(r) : events[i].op = "write"}

IsOutput(r) ==
    /\ r + 1 <= Len(stdout)
    /\ stdout[r + 1].kind = "row"
    /\ stdout[r + 1].email = sorted_emails[r].k

\* the bounds of C10 on the rows and on the API calls per row
LookupBounds ==
    /\ \A i \in 1..Len(events) : events[i].row \in 1..Len(sorted_emails)
    /\ \A r \in 1..Len(sorted_emails) :
          /\ sorted_emails[r].v.commits >= args.min_commits
          /\ (args.limit.given /\ args.limit.n > 0) => r <= args.limit.n
          /\ Cardinality(ApiCallsOfRow(r)) <= (IF args.include_details THEN 2 ELSE 1)
          /\ Cardinality(WritesOfRow(r)) <= Cardinality(ApiCallsOfRow(r))

\* C10 as stated: lookups are made only for rows that passed the filter and
\* the limit, at most one API call per row in basic mode and two in detailed
\* mode, and when the run has ended every record a lookup was issued for or a
\* cache entry was written for is a record that was output.
C10_OnlyOutputRows ==
    /\ LookupBounds
    /\ pc \in {"done", "failed"} =>
          \A i \in 1..Len(events) : IsOutput(events[i].row)

\* C10, amended: as stated, except that the one record whose API lookup fails
\* and ends the run has had that lookup issued (and in detailed mode possibly
\* its commit entry written to the in-memory cache) without being output.
C10_LookupsPerRow ==
    /\ LookupBounds
    /\ \A i \in 1..Len(events) :
          \/ IsOutput(events[i].row)
          \/ /\ pc = "failed" /\ fail = "api_row" /\ events[i].row = ri
             /\ \E j \in ApiCallsOfRow(ri) : \A q \in EventsOfRow(ri) : q <= j

C10_Witness ==
    /\ pc = "done" /\ args.include_details
    /\ Len(email_stats) > Len(sorted_emails)
    /\ \E r \in 1..Len(sorted_emails) : Cardinality(ApiCallsOfRow(r)) = 2

----------------------------------------------------------------------------
(* Properties of the cache across lookups and runs. *)

\* the first "return" event of this run for the key of event i
FirstReturn(i) ==
    CHOOSE j \in 1..i :
        /\ events[j].op = "return" /\ events[j].key = events[i].key
        /\ \A q \in 1..(j - 1) : ~(events[q].op = "return" /\ events[q].key = events[i].key)

\* C1: no API call is made for a cache key a completed run looked up before,
\* nor twice in one run, and every lookup of a key returns the value its first
\* lookup returned, an empty (negative) result included.
C1_CacheIdempotence ==
    \A i \in 1..Len(events) :
        /\ events[i].op = "api" =>
              /\ ~DictHas(persisted, events[i].key)
              /\ \A j \in 1..(i - 1) : ~(events[j].op = "api" /\ events[j].key = events[i].key)
        /\ events[i].op = "return" =>
              events[i].val = IF DictHas(persisted, events[i].key)
                              THEN DictGet(persisted, events[i].key)
                              ELSE events[FirstReturn(i)].val

\* a negative commit lookup of the first run answered from the cache in the second
C1_Witness ==
    /\ run = 2
    /\ \E i \in 1..Len(events) :
          /\ events[i].op = "return"
          /\ DictHas(persisted, events[i].key)
          /\ events[i].val = EmptyResult

====
